---- MODULE Spec2Model ----
(***************************************************************************)
(* Model of scripts/fetch_categories.py: the recursive discovery of a      *)
(* category hierarchy (build_category_tree), the aggregation of file       *)
(* counts (calculate_total_files), the flattening (flatten_category_tree)  *)
(* and the driver (main).                                                  *)
(*                                                                         *)
(* Category names are positive integers; the alphabetical order of names  *)
(* is the order of the integers.  The remote index is the pair subcatsOf / *)
(* filesOf: a category it holds answers with that entry, a category it     *)
(* does not hold may answer anything.  Python's None and the empty list    *)
(* are both written <<>>: every consumer in the source only tests          *)
(* truthiness (lines 106, 122, 131, 158).  A dict is a function whose      *)
(* DOMAIN is its key set.                                                  *)
(***************************************************************************)
EXTENDS Integers, Sequences, FiniteSets, TLC

\* ---- bounds of the model ------------------------------------------------
\* largest max_level a run is started with
MaxDepthBound == 2
\* largest direct file count the index reports
MaxCount == 1
\* largest number of pages one subcategory listing is sent in
MaxPages == 2

\* the category names an index over which nothing is fixed may answer with:
\* the root and two more, which is what a self-loop, a cycle through the
\* root, a diamond and a category met at two depths need
Names == {1, 2, 3}
\* 'Orkney Islands' (line 180)
Root == 1
FileCounts == 0..MaxCount

VARIABLES
    pc,           \* position of main
    max_level,    \* the configured depth bound handed to build_category_tree
    stack,        \* activation records of build_category_tree, innermost last
    visited,      \* the shared visited set
    file_counts,  \* the shared direct-counts dict
    tree,         \* main's tree
    total_files,  \* main's total_files
    flat_list,    \* main's flat_list
    output,       \* the written artifact: <<>> or <<document>>
    subcatsOf,    \* remote index: category -> set of direct subcategories
    filesOf,      \* remote index: category -> direct file count
                  \* (both constant during a run)
    subQueries,   \* history: calls of fetch_subcategories per category
    countQueries, \* history: calls of fetch_file_count per category
    expansions,   \* history: expansions (line 96) per category
    failed        \* history: some adapter request has failed

vars == <<pc, max_level, stack, visited, file_counts, tree, total_files,
          flat_list, output, subcatsOf, filesOf, subQueries, countQueries,
          expansions, failed>>

\* ---- helpers ------------------------------------------------------------
\* dict.get(k, default)
Get(d, k, default) == IF k \in DOMAIN d THEN d[k] ELSE default

\* d[k] = v
Put(d, k, v) == [x \in DOMAIN d \cup {k} |-> IF x = k THEN v ELSE d[x]]

\* history counters: one more event for k
Count(d, k) == Put(d, k, Get(d, k, 0) + 1)

Range(s) == {s[i] : i \in DOMAIN s}

\* sequences over S without repetition, of every length
RECURSIVE Perms(_)
Perms(S) ==
    IF S = {} THEN {<<>>}
    ELSE UNION {{<<x>> \o p : p \in Perms(S \ {x})} : x \in S}

\* a sort that leaves the list as the index sent it
SortNamesUnsorted(s) == s

\* list.sort() on a list of names: insertion into ascending order
RECURSIVE SortNames(_)
Insert(x, s) ==
    LET before == SelectSeq(s, LAMBDA y : y <= x)
        after  == SelectSeq(s, LAMBDA y : y > x)
    IN  before \o <<x>> \o after
SortNames(s) == IF s = <<>> THEN <<>> ELSE Insert(Head(s), SortNames(Tail(s)))

Top == stack[Len(stack)]
Pop == SubSeq(stack, 1, Len(stack) - 1)
SetTop(f) == [stack EXCEPT ![Len(stack)] = f]

\* a fresh activation of build_category_tree(parent_category, level, ...);
\* page is the number of the request fetch_subcategories makes next, a local
\* of that call, back at 1 once the call has returned
Frame(cat, level) ==
    [parent_category |-> cat, level |-> level, at |-> "entry",
     subcats |-> <<>>, page |-> 1, i |-> 1, result |-> <<>>]

\* ---- build_category_tree ------------------------------------------------
\* the depth test off by one
StopsExpansionOffByOne(cat, level) ==
    cat \in visited \/ level > max_level + 1

\* the visited test left out
StopsExpansionNoVisited(cat, level) == level > max_level

\* line 93: the condition under which a call returns None at once
StopsExpansion(cat, level) == cat \in visited \/ level > max_level

\* lines 114-125 of the caller, run when the recursive call (or, for the
\* outermost call, line 180 of main) receives the value `val`
Returning(val) ==
    LET stk == Pop IN
    IF stk = <<>>
    THEN /\ stack' = <<>>
         /\ tree' = val
         /\ pc' = "calc"
    ELSE LET f == stk[Len(stk)]
             name == f.subcats[f.i]
             cat_data ==
                 IF val # <<>>
                 THEN [name |-> name, level |-> f.level, files |-> 0,
                       children |-> val]
                 ELSE [name |-> name, level |-> f.level, files |-> 0]
         IN  /\ stack' = [stk EXCEPT ![Len(stk)] =
                             [f EXCEPT !.result = Append(@, cat_data),
                                       !.i = @ + 1]]
             /\ UNCHANGED <<tree, pc>>

\* main, lines 179-180
MainStart ==
    /\ pc = "start"
    /\ pc' = "build"
    /\ stack' = <<Frame(Root, 1)>>
    /\ file_counts' = <<>>
    /\ UNCHANGED <<max_level, visited, tree, total_files, flat_list, output,
                   subcatsOf, filesOf, subQueries, countQueries, expansions,
                   failed>>

\* lines 93-94
BuildSkip ==
    /\ pc = "build"
    /\ Top.at = "entry"
    /\ StopsExpansion(Top.parent_category, Top.level)
    /\ Returning(<<>>)
    /\ UNCHANGED <<max_level, visited, file_counts, total_files, flat_list,
                   output, subcatsOf, filesOf, subQueries, countQueries,
                   expansions, failed>>

\* an expansion that forgets to mark the category visited
BuildVisitNoMark ==
    /\ pc = "build"
    /\ Top.at = "entry"
    /\ ~StopsExpansion(Top.parent_category, Top.level)
    /\ expansions' = Count(expansions, Top.parent_category)
    /\ stack' = SetTop([Top EXCEPT !.at = "subcats"])
    /\ UNCHANGED <<pc, max_level, visited, file_counts, tree, total_files,
                   flat_list, output, subcatsOf, filesOf, subQueries,
                   countQueries, failed>>

\* lines 96-97, up to the call of fetch_subcategories
BuildVisit ==
    /\ pc = "build"
    /\ Top.at = "entry"
    /\ ~StopsExpansion(Top.parent_category, Top.level)
    /\ visited' = visited \cup {Top.parent_category}
    /\ expansions' = Count(expansions, Top.parent_category)
    /\ stack' = SetTop([Top EXCEPT !.at = "subcats"])
    /\ UNCHANGED <<pc, max_level, file_counts, tree, total_files, flat_list,
                   output, subcatsOf, filesOf, subQueries, countQueries,
                   failed>>

\* ---- fetch_subcategories: one action per request of the while loop -------
\* history: the first request of a call counts the call
CountSubQuery(f) ==
    IF f.page = 1
    THEN Count(subQueries, f.parent_category)
    ELSE subQueries

\* the value fetch_subcategories returns from an except clause (lines 39, 43)
SubcatsOnError == <<>>

\* lines 31-34, 45-55: the request succeeds and the page is appended; the
\* index lists each member once, a page holding some of those not yet sent
FetchSubcatsPage ==
    /\ pc = "build"
    /\ Top.at = "subcats"
    /\ LET f == Top IN
       \E S \in (IF f.parent_category \in DOMAIN subcatsOf
                 THEN {subcatsOf[f.parent_category]} ELSE SUBSET Names) :
       \E P \in SUBSET (S \ Range(f.subcats)) :
       \E page \in Perms(P) :
          LET more == P # S \ Range(f.subcats) IN
          /\ more => f.page < MaxPages
          /\ subQueries' = CountSubQuery(f)
          /\ stack' = SetTop([f EXCEPT !.subcats = @ \o page,
                                       !.page = IF more THEN @ + 1 ELSE 1,
                                       !.at = IF more THEN "subcats"
                                                      ELSE "count"])
    /\ UNCHANGED <<pc, max_level, visited, file_counts, tree, total_files,
                   flat_list, output, subcatsOf, filesOf, countQueries,
                   expansions, failed>>

\* line 31 raises (connection failure, timeout); the handler of lines 35-39
\* reads `response`, which is unbound when the first request raised: the
\* UnboundLocalError leaves fetch_subcategories, build_category_tree and main
FetchSubcatsTransportError ==
    /\ pc = "build"
    /\ Top.at = "subcats"
    /\ subQueries' = CountSubQuery(Top)
    /\ failed' = TRUE
    /\ IF Top.page = 1
       THEN /\ pc' = "crashed"
            /\ UNCHANGED stack
       ELSE /\ stack' = SetTop([Top EXCEPT !.subcats = SubcatsOnError,
                                           !.page = 1,
                                           !.at = "count"])
            /\ UNCHANGED pc
    /\ UNCHANGED <<max_level, visited, file_counts, tree, total_files,
                   flat_list, output, subcatsOf, filesOf, countQueries,
                   expansions>>

\* line 32 raises HTTPError: `response` is bound (and falsy), lines 35-39
FetchSubcatsBadStatus ==
    /\ pc = "build"
    /\ Top.at = "subcats"
    /\ subQueries' = CountSubQuery(Top)
    /\ failed' = TRUE
    /\ stack' = SetTop([Top EXCEPT !.subcats = SubcatsOnError,
                                   !.page = 1,
                                   !.at = "count"])
    /\ UNCHANGED <<pc, max_level, visited, file_counts, tree, total_files,
                   flat_list, output, subcatsOf, filesOf, countQueries,
                   expansions>>

\* line 34 raises ValueError, lines 40-43
FetchSubcatsDecodeError ==
    /\ pc = "build"
    /\ Top.at = "subcats"
    /\ subQueries' = CountSubQuery(Top)
    /\ failed' = TRUE
    /\ stack' = SetTop([Top EXCEPT !.subcats = SubcatsOnError,
                                   !.page = 1,
                                   !.at = "count"])
    /\ UNCHANGED <<pc, max_level, visited, file_counts, tree, total_files,
                   flat_list, output, subcatsOf, filesOf, countQueries,
                   expansions>>

\* ---- fetch_file_count and the rest of the body up to the loop ------------
\* lines 103-112 with file_count = n
AfterFileCount(n) ==
    LET f == Top IN
    /\ file_counts' = Put(file_counts, f.parent_category, n)
    /\ countQueries' = Count(countQueries, f.parent_category)
    /\ IF f.subcats = <<>>
       THEN Returning(<<>>)
       ELSE /\ stack' = SetTop([f EXCEPT !.subcats = SortNames(@),
                                         !.result = <<>>,
                                         !.i = 1,
                                         !.at = "loop"])
            /\ UNCHANGED <<pc, tree>>

\* lines 69-71, 79-84: the request succeeds
FetchFileCount ==
    /\ pc = "build"
    /\ Top.at = "count"
    /\ \E n \in (IF Top.parent_category \in DOMAIN filesOf
                 THEN {filesOf[Top.parent_category]} ELSE FileCounts) :
          AfterFileCount(n)
    /\ UNCHANGED <<max_level, visited, total_files, flat_list, output,
                   subcatsOf, filesOf, subQueries, expansions, failed>>

\* lines 69-70 raise RequestException (transport error or bad status),
\* lines 72-74
FetchFileCountRequestError ==
    /\ pc = "build"
    /\ Top.at = "count"
    /\ failed' = TRUE
    /\ AfterFileCount(0)
    /\ UNCHANGED <<max_level, visited, total_files, flat_list, output,
                   subcatsOf, filesOf, subQueries, expansions>>

\* line 71 raises ValueError, lines 75-77
FetchFileCountDecodeError ==
    /\ pc = "build"
    /\ Top.at = "count"
    /\ failed' = TRUE
    /\ AfterFileCount(0)
    /\ UNCHANGED <<max_level, visited, total_files, flat_list, output,
                   subcatsOf, filesOf, subQueries, expansions>>

\* lines 113-121: the next subcategory, up to the recursive call
LoopCall ==
    /\ pc = "build"
    /\ Top.at = "loop"
    /\ Top.i <= Len(Top.subcats)
    /\ stack' = Append(stack, Frame(Top.subcats[Top.i], Top.level + 1))
    /\ UNCHANGED <<pc, max_level, visited, file_counts, tree, total_files,
                   flat_list, output, subcatsOf, filesOf, subQueries,
                   countQueries, expansions, failed>>

\* line 127
LoopReturn ==
    /\ pc = "build"
    /\ Top.at = "loop"
    /\ Top.i > Len(Top.subcats)
    /\ Returning(Top.result)
    /\ UNCHANGED <<max_level, visited, file_counts, total_files, flat_list,
                   output, subcatsOf, filesOf, subQueries, countQueries,
                   expansions, failed>>

\* ---- calculate_total_files ----------------------------------------------
RECURSIVE recurse(_, _, _)
RECURSIVE RecurseEach(_, _, _, _)

\* the loops of lines 143-144 and 149-150 from position k on; acc is the
\* running total and the totals dict.  (The value a call returns is bound
\* by a quantifier, r \in {...}, so that it is computed once.)
RecurseEach(nodes, k, fc, acc) ==
    IF k > Len(nodes) THEN acc
    ELSE CHOOSE out \in
             {RecurseEach(nodes, k + 1, fc,
                          [total |-> acc.total + r.total, totals |-> r.totals]) :
                 r \in {recurse(nodes[k], fc, acc.totals)}} : TRUE

\* a total that starts from zero instead of the direct count
DirectFilesZero(fc, name) == 0

\* line 139
DirectFiles(fc, name) == Get(fc, name, 0)

\* lines 136-147; returns the value returned and the totals dict afterwards
recurse(node, fc, totals) ==
    LET start == [total |-> DirectFiles(fc, node.name), totals |-> totals]
    IN  CHOOSE out \in
            {[total |-> r.total, totals |-> Put(r.totals, node.name, r.total)] :
                r \in {IF "children" \in DOMAIN node
                       THEN RecurseEach(node.children, 1, fc, start)
                       ELSE start}} : TRUE

\* lines 129-152
calculate_total_files(t, fc) ==
    IF t = <<>> THEN <<>>
    ELSE RecurseEach(t, 1, fc, [total |-> 0, totals |-> <<>>]).totals

\* ---- flatten_category_tree ----------------------------------------------
RECURSIVE FlattenFrom(_, _, _, _)

\* lines 162-166
FlatRecord(cat, level, totals) ==
    [name |-> cat.name, level |-> level,
     files |-> IF DOMAIN totals # {} THEN Get(totals, cat.name, 0) ELSE 0]

\* the loop of lines 161-169 from position k on
FlattenFrom(t, k, level, totals) ==
    IF k > Len(t) THEN <<>>
    ELSE <<FlatRecord(t[k], level, totals)>>
         \o (IF "children" \in DOMAIN t[k]
             THEN FlattenFrom(t[k].children, 1, level + 1, totals)
             ELSE <<>>)
         \o FlattenFrom(t, k + 1, level, totals)

\* lines 154-171
flatten_category_tree(t, level, totals) ==
    IF t = <<>> THEN <<>> ELSE FlattenFrom(t, 1, level, totals)

\* ---- main ---------------------------------------------------------------
\* line 184
CalculateTotalFiles ==
    /\ pc = "calc"
    /\ total_files' = calculate_total_files(tree, file_counts)
    /\ pc' = "flatten"
    /\ UNCHANGED <<max_level, stack, visited, file_counts, tree, flat_list,
                   output, subcatsOf, filesOf, subQueries, countQueries,
                   expansions, failed>>

\* line 187
Flatten ==
    /\ pc = "flatten"
    /\ flat_list' = flatten_category_tree(tree, 1, total_files)
    /\ pc' = "write"
    /\ UNCHANGED <<max_level, stack, visited, file_counts, tree, total_files,
                   output, subcatsOf, filesOf, subQueries, countQueries,
                   expansions, failed>>

\* lines 190-205 (the timestamp is left out)
WriteOutput ==
    /\ pc = "write"
    /\ output' = <<[root_category |-> Root,
                    total_categories |-> Len(flat_list),
                    max_depth |-> max_level,
                    categories |-> flat_list]>>
    /\ pc' = "done"
    /\ UNCHANGED <<max_level, stack, visited, file_counts, tree, total_files,
                   flat_list, subcatsOf, filesOf, subQueries, countQueries,
                   expansions, failed>>

\* ---- specifications -----------------------------------------------------
\* the state at the start of main; main passes max_level = MAX_DEPTH
\* (line 14), the model starts a run with any depth bound up to MaxDepthBound
InitProgram ==
    /\ pc = "start"
    /\ max_level \in 1..MaxDepthBound
    /\ stack = <<>>
    /\ visited = {}
    /\ file_counts = <<>>
    /\ tree = <<>>
    /\ total_files = <<>>
    /\ flat_list = <<>>
    /\ output = <<>>
    /\ subQueries = <<>>
    /\ countQueries = <<>>
    /\ expansions = <<>>
    /\ failed = FALSE

\* any remote index over Names: no answer is fixed in advance
Init ==
    /\ InitProgram
    /\ subcatsOf = <<>>
    /\ filesOf = <<>>

Next ==
    \/ MainStart
    \/ BuildSkip
    \/ BuildVisit
    \/ FetchSubcatsPage
    \/ FetchSubcatsTransportError
    \/ FetchSubcatsBadStatus
    \/ FetchSubcatsDecodeError
    \/ FetchFileCount
    \/ FetchFileCountRequestError
    \/ FetchFileCountDecodeError
    \/ LoopCall
    \/ LoopReturn
    \/ CalculateTotalFiles
    \/ Flatten
    \/ WriteOutput

Spec == Init /\ [][Next]_vars

\* the example index of the specification's scenarios: A = 1 lists B = 2 and
\* C = 3, B lists D = 4; direct file counts A=2, B=5, C=1, D=3
ScenarioSubcats == (1 :> {2, 3}) @@ (2 :> {4}) @@ (3 :> {}) @@ (4 :> {})
ScenarioFiles == (1 :> 2) @@ (2 :> 5) @@ (3 :> 1) @@ (4 :> 3)

InitScenario ==
    /\ InitProgram
    /\ subcatsOf = ScenarioSubcats
    /\ filesOf = ScenarioFiles

SpecScenario == InitScenario /\ [][Next]_vars

\* the process is the only thread and runs until it exits
FairSpec == Spec /\ WF_vars(Next)

\* ---- the built tree, as the claims read it ------------------------------
Children(node) == IF "children" \in DOMAIN node THEN node.children ELSE <<>>

\* every node occurrence of t with its position: the path of child indexes
RECURSIVE Occurrences(_, _)
Occurrences(t, prefix) ==
    UNION {{[path |-> Append(prefix, k), node |-> t[k]]}
           \cup Occurrences(Children(t[k]), Append(prefix, k)) : k \in DOMAIN t}

Occ == Occurrences(tree, <<>>)

\* p comes before q in pre-order: p is an ancestor of q, or p branches off
\* to an earlier sibling
PathBefore(p, q) ==
    /\ p # q
    /\ \/ /\ Len(p) < Len(q)
          /\ SubSeq(q, 1, Len(p)) = p
       \/ \E k \in 1..Len(p) :
             /\ k <= Len(q)
             /\ SubSeq(p, 1, k - 1) = SubSeq(q, 1, k - 1)
             /\ p[k] < q[k]

\* the position of the occurrence at path p in the pre-order of the tree
PreOrderIndex(p) == Cardinality({o \in Occ : PathBefore(o.path, p)}) + 1

HasChildren(o) == Children(o.node) # <<>>

Flattened == pc \in {"write", "done"}
Aggregated == pc \in {"flatten", "write", "done"}

\* the total the aggregation holds for a name
Total(name) == Get(total_files, name, 0)
\* the direct count recorded for a name
Direct(name) == Get(file_counts, name, 0)

RECURSIVE SumTotals(_, _)
SumTotals(children, k) ==
    IF k > Len(children) THEN 0
    ELSE Total(children[k].name) + SumTotals(children, k + 1)

\* ---- claims -------------------------------------------------------------

\* C1: whatever adapter request fails, in whatever way, the failure is
\* absorbed as zero subcategories / zero files and the run never aborts.
C1NeverAborts == pc # "crashed"

\* C2: on the example index, a run with max_depth = 1 and no failure
\* produces exactly [{B, level 1, files 5}, {C, level 1, files 1}]: the
\* categories at the depth bound carry their own direct count.
C2DepthBoundKeepsDirectCount ==
    (pc = "done" /\ max_level = 1 /\ ~failed) =>
        flat_list = <<[name |-> 2, level |-> 1, files |-> ScenarioFiles[2]],
                      [name |-> 3, level |-> 1, files |-> ScenarioFiles[3]]>>

\* C3: no category name occurs in more than one record of the flattened
\* output.
C3NamesUnique ==
    pc = "done" =>
        \A i, j \in DOMAIN flat_list :
            i # j => flat_list[i].name # flat_list[j].name

\* C4: for every node occurrence, the total finally held for its name, which
\* is the 'files' of its record, is the direct count recorded for the name
\* plus the final totals of the node's children.
C4TotalIsDirectPlusChildren ==
    pc = "done" =>
        \A o \in Occ :
            /\ Total(o.node.name)
                   = Direct(o.node.name) + SumTotals(Children(o.node), 1)
            /\ flat_list[PreOrderIndex(o.path)].files = Total(o.node.name)

C6RootNeverEmitted ==
    pc = "done" => \A i \in DOMAIN flat_list : flat_list[i].name # Root

\* C7: the flattened list is the pre-order traversal of the built tree (the
\* record at the pre-order position of a node is the node's), and records
\* that are siblings appear in strictly ascending order of name.
C7PreOrderSortedSiblings ==
    Flattened =>
        /\ Len(flat_list) = Cardinality(Occ)
        /\ \A o \in Occ :
              /\ flat_list[PreOrderIndex(o.path)].name = o.node.name
              /\ flat_list[PreOrderIndex(o.path)].files = Total(o.node.name)
        /\ \A i, j \in DOMAIN flat_list :
              ( /\ i < j
                /\ flat_list[i].level = flat_list[j].level
                /\ \A k \in i..j : flat_list[k].level >= flat_list[i].level )
              => flat_list[i].name < flat_list[j].name

\* a finished run in which the root has several subcategories, the first of
\* which has several of its own
C7Witness ==
    /\ pc = "done"
    /\ Len(tree) >= 2
    /\ Len(Children(tree[1])) >= 2
    /\ Len(flat_list) >= 4

\* C8: the records of the root's direct subcategories have level 1, every
\* other record has the level of its parent's record plus one, the level
\* flatten recomputes is the level build stored, and no level exceeds
\* max_depth.
C8Levels ==
    /\ \A o \in Occ :
          /\ o.node.level = Len(o.path)
          /\ o.node.level <= max_level
    /\ Flattened =>
          /\ \A o \in Occ :
                LET r == flat_list[PreOrderIndex(o.path)] IN
                /\ r.level = o.node.level
                /\ Len(o.path) = 1 => r.level = 1
                /\ Len(o.path) > 1 =>
                      r.level = flat_list[PreOrderIndex(
                                    SubSeq(o.path, 1, Len(o.path) - 1))].level + 1
          /\ \A i \in DOMAIN flat_list :
                flat_list[i].level \in 1..max_level

\* a finished run with records at level 1 and at level max_depth > 1
C8Witness ==
    /\ pc = "done"
    /\ max_level > 1
    /\ \E i, j \in DOMAIN flat_list :
          flat_list[i].level = 1 /\ flat_list[j].level = max_level

QueriedOnce ==
    /\ \A n \in DOMAIN subQueries : subQueries[n] <= 1
    /\ \A n \in DOMAIN countQueries : countQueries[n] <= 1
    /\ \A n \in DOMAIN expansions : expansions[n] <= 1

\* C9 as stated: each category is queried and expanded at most once, and of
\* the occurrences of a name the one that carries children is the first in
\* pre-order, every later one being a leaf.
C9FirstOccurrenceExpanded ==
    /\ QueriedOnce
    /\ pc = "done" =>
          \A o, o2 \in Occ :
              (HasChildren(o) /\ o2 # o /\ o2.node.name = o.node.name)
              => (PathBefore(o.path, o2.path) /\ ~HasChildren(o2))

\* C9 as amended: each category is queried and expanded at most once; of
\* the occurrences of a name at most one carries children, it lies above
\* the depth bound, and every occurrence before it in pre-order lies at the
\* depth bound (level = max_depth).
C9OneOccurrenceExpanded ==
    /\ QueriedOnce
    /\ pc = "done" =>
          \A o, o2 \in Occ :
              (HasChildren(o) /\ o2 # o /\ o2.node.name = o.node.name)
              => /\ ~HasChildren(o2)
                 /\ o.node.level < max_level
                 /\ PathBefore(o2.path, o.path) => o2.node.level = max_level

\* a name met first as a leaf at the depth bound and expanded later, and a
\* name expanded first and met again as a leaf
C9Witness ==
    /\ pc = "done"
    /\ \E o, o2 \in Occ :
          /\ HasChildren(o) /\ o2.node.name = o.node.name
          /\ PathBefore(o2.path, o.path)
    /\ \E o, o2 \in Occ :
          /\ HasChildren(o) /\ o2.node.name = o.node.name
          /\ PathBefore(o.path, o2.path)

\* C10: provided every adapter call returns (a run in which one raises ends
\* in "crashed"), the run terminates, each category being expanded at most
\* once, each expansion adding a new name to the visited set, and the totals
\* mapping ends with an entry for every name of the tree.
C10Terminates ==
    /\ <>(pc = "done" \/ pc = "crashed")
    /\ [](\A n \in DOMAIN expansions : expansions[n] <= 1)
    /\ [][expansions' # expansions =>
              (visited \subseteq visited' /\ visited' # visited)]_vars
    /\ [](pc = "done" =>
              \A o \in Occ : o.node.name \in DOMAIN total_files)

\* a finished run over an index with a cycle: a category has itself among
\* its descendants in the tree
C10Witness ==
    /\ pc = "done"
    /\ \E o, o2 \in Occ :
          /\ o2.node.name = o.node.name
          /\ Len(o.path) < Len(o2.path)
          /\ SubSeq(o2.path, 1, Len(o.path)) = o.path
    /\ \A o \in Occ : o.node.name \in DOMAIN total_files

====
